---- MODULE Spec2Model ----
(***************************************************************************)
(* Model of source/features/latest-tag-button.tsx (refined-github).        *)
(*                                                                         *)
(* Strings the code inspects character by character (tag names) are        *)
(* sequences of one-character strings.  Object ids are opaque strings.     *)
(***************************************************************************)
EXTENDS Integers, Sequences, FiniteSets

VARIABLES
    nodes,              \* repository.refs.nodes as the metadata query returns them
    defaultBranchRef,   \* repository.defaultBranchRef.target.oid
    defaultBranchName,  \* the name of the repository's default branch
    resolved,           \* result of the last direct run of the getter, or Unresolved
    now,                \* the clock of the cache store, in days
    store,              \* the cache store: key -> entry or Absent
    run,                \* the runs of init: position and locals of each
    bg                  \* the detached revalidation each run has spawned, or NoTask

vars == <<nodes, defaultBranchRef, defaultBranchName, resolved, now, store, run, bg>>

repoVars == <<nodes, defaultBranchRef, defaultBranchName>>

-----------------------------------------------------------------------------
(* Bounds *)

MaxTags == 3            \* longest tag list enumerated (the query asks for at most 20)
MaxTime == 4            \* the clock stops here

-----------------------------------------------------------------------------
(* Values *)

\* JavaScript `false` in RepoPublishState.latestTag; no tag name equals it
\* (tag names are sequences of single characters).
false == <<"false">>

Unresolved == [pending |-> TRUE]

\* Tag names of the enumerated repositories.
TagNames ==
    { <<"1", ".", "2", ".", "0">>,
      <<"v", "1", ".", "2", ".", "0">>,
      <<"2", ".", "9", ".", "0">>,
      <<"2", ".", "1", "0", ".", "0">>,
      <<"r", "2", ".", "1", "0", ".", "0">>,
      <<"h", "o", "t", "f", "i", "x">>,
      <<"v", "n", "e", "x", "t">> }

CommitOids == {"c1", "c2"}

\* `tag: target { oid ... on Tag { commit: target { oid } } }`:
\* a lightweight tag targets a commit, an annotated tag targets a tag object
\* that carries the commit behind it.
TagTargets ==
    { [oid |-> c] : c \in CommitOids }
        \cup { [oid |-> "t1", commit |-> [oid |-> "c1"]] }

RefNodes == [name : TagNames, tag : TagTargets]

RECURSIVE SeqsUpTo(_, _)
SeqsUpTo(S, n) ==
    IF n = 0 THEN { <<>> }
    ELSE LET shorter == SeqsUpTo(S, n - 1)
         IN  shorter \cup { Append(s, x) : s \in { t \in shorter : Len(t) = n - 1 }, x \in S }

\* Ref names are unique within a repository.
DistinctNames(ns) == \A i, j \in 1..Len(ns) : i # j => ns[i].name # ns[j].name

-----------------------------------------------------------------------------
(* Version Comparator (tiny-version-compare) *)

Digits == <<"0", "1", "2", "3", "4", "5", "6", "7", "8", "9">>

IsDigit(c) == \E i \in 1..10 : Digits[i] = c

DigitValue(c) == (CHOOSE i \in 1..10 : Digits[i] = c) - 1

\* /^[vr]?/ stripped
StripPrefix(s) ==
    IF s # <<>> /\ Head(s) \in {"v", "r"} THEN Tail(s) ELSE s

\* s.split('.') with every piece read as a decimal number
RECURSIVE SplitNumbers(_, _, _)
SplitNumbers(s, acc, cur) ==
    IF s = <<>> THEN Append(acc, cur)
    ELSE IF Head(s) = "." THEN SplitNumbers(Tail(s), Append(acc, cur), 0)
    ELSE IF IsDigit(Head(s)) THEN SplitNumbers(Tail(s), acc, cur * 10 + DigitValue(Head(s)))
    ELSE SplitNumbers(Tail(s), acc, cur)

Segments(s) == SplitNumbers(StripPrefix(s), <<>>, 0)

SegmentAt(p, i) == IF i <= Len(p) THEN p[i] ELSE 0

RECURSIVE CompareFrom(_, _, _)
CompareFrom(p, q, i) ==
    IF i > Len(p) /\ i > Len(q) THEN 0
    ELSE IF SegmentAt(p, i) < SegmentAt(q, i) THEN -1
    ELSE IF SegmentAt(p, i) > SegmentAt(q, i) THEN 1
    ELSE CompareFrom(p, q, i + 1)

\* negative, zero or positive, as Array.prototype.sort expects of a comparator
compareVersions(a, b) == CompareFrom(Segments(a), Segments(b), 1)

-----------------------------------------------------------------------------
(* getRepoPublishState: the computation behind the cache *)

\* Mutant: the annotated tag object's own id is taken for the commit.
tagCommit_noDeref(node) == node.tag.oid

\* node.tag.commit?.oid ?? node.tag.oid
tagCommit(node) ==
    IF "commit" \in DOMAIN node.tag THEN node.tag.commit.oid ELSE node.tag.oid

\* repository.refs.nodes.map(node => ({name, commit}))
tags(ns) == [i \in 1..Len(ns) |-> [name |-> ns[i].name, commit |-> tagCommit(ns[i])]]

\* /^[vr]?\d/.test(name)
isVersionLike(name) ==
    \/ name # <<>> /\ IsDigit(name[1])
    \/ Len(name) >= 2 /\ name[1] \in {"v", "r"} /\ IsDigit(name[2])

\* tags.every(tag => /^[vr]?\d/.test(tag.name))
allVersionLike(ts) == \A i \in 1..Len(ts) : isVersionLike(ts[i].name)

\* Array.prototype.sort is stable: an element goes behind every element that
\* does not compare greater than it.
\* the characters of version-like names, in code unit order
CharOrder == <<".", "0", "1", "2", "3", "4", "5", "6", "7", "8", "9", "r", "v">>

CharCode(c) == CHOOSE i \in 1..Len(CharOrder) : CharOrder[i] = c

\* a < b ? -1 : a > b ? 1 : 0 on strings
RECURSIVE compareStrings(_, _)
compareStrings(a, b) ==
    IF a = <<>> /\ b = <<>> THEN 0
    ELSE IF a = <<>> THEN -1
    ELSE IF b = <<>> THEN 1
    ELSE IF CharCode(Head(a)) < CharCode(Head(b)) THEN -1
    ELSE IF CharCode(Head(a)) > CharCode(Head(b)) THEN 1
    ELSE compareStrings(Tail(a), Tail(b))

\* Mutant: the names are sorted as strings.
RECURSIVE insertSorted_lexical(_, _)
insertSorted_lexical(sorted, t) ==
    IF sorted = <<>> THEN <<t>>
    ELSE IF compareStrings(sorted[Len(sorted)].name, t.name) <= 0 THEN Append(sorted, t)
    ELSE Append(insertSorted_lexical(SubSeq(sorted, 1, Len(sorted) - 1), t),
                sorted[Len(sorted)])

\* Mutant: an element goes before the elements it compares equal to.
RECURSIVE insertSorted_unstable(_, _)
insertSorted_unstable(sorted, t) ==
    IF sorted = <<>> THEN <<t>>
    ELSE IF compareVersions(sorted[Len(sorted)].name, t.name) < 0 THEN Append(sorted, t)
    ELSE Append(insertSorted_unstable(SubSeq(sorted, 1, Len(sorted) - 1), t),
                sorted[Len(sorted)])

RECURSIVE insertSorted(_, _)
insertSorted(sorted, t) ==
    IF sorted = <<>> THEN <<t>>
    ELSE IF compareVersions(sorted[Len(sorted)].name, t.name) <= 0 THEN Append(sorted, t)
    ELSE Append(insertSorted(SubSeq(sorted, 1, Len(sorted) - 1), t), sorted[Len(sorted)])

RECURSIVE sortTags(_)
sortTags(ts) ==
    IF ts = <<>> THEN <<>>
    ELSE insertSorted(sortTags(SubSeq(ts, 1, Len(ts) - 1)), ts[Len(ts)])

\* Mutant: shift() for pop(), the lowest version is taken.
latestTag_shift(ts) ==
    IF allVersionLike(ts)
    THEN LET sorted == sortTags(ts) IN sorted[1]
    ELSE ts[1]

\* Mutant: some() for every(), one version-like name is enough to sort.
latestTag_some(ts) ==
    IF \E i \in 1..Len(ts) : isVersionLike(ts[i].name)
    THEN LET sorted == sortTags(ts) IN sorted[Len(sorted)]
    ELSE ts[1]

\* [latestTag] = tags, then tags.sort(...).pop() when all tags are versions
latestTag(ts) ==
    IF allVersionLike(ts)
    THEN LET sorted == sortTags(ts) IN sorted[Len(sorted)]
    ELSE ts[1]

\* Mutant: a repository without tags is reported as up to date.
publishState_emptyUpToDate(ns, defaultOid) ==
    IF Len(ns) = 0
    THEN [latestTag |-> false, isUpToDate |-> TRUE]
    ELSE LET latest == latestTag(tags(ns))
         IN  [latestTag |-> latest.name, isUpToDate |-> latest.commit = defaultOid]

\* the async function handed to cache.function, given the query's answer
publishState(ns, defaultOid) ==
    IF Len(ns) = 0
    THEN [latestTag |-> false, isUpToDate |-> FALSE]
    ELSE LET latest == latestTag(tags(ns))
         IN  [latestTag |-> latest.name, isUpToDate |-> latest.commit = defaultOid]

-----------------------------------------------------------------------------
(* Page and repository context *)

featureName == "latest-tag-button"                  \* __featureName__

getRepoURL == "user/repo"

master == <<"m", "a", "s", "t", "e", "r">>

getDefaultBranch == defaultBranchName

\* The default branch's commits, oldest first; its head is defaultBranchRef.
History == <<"c1", "c2", "c3">>

Position(oid) == CHOOSE i \in 1..Len(History) : History[i] = oid

\* Tag names published while init runs.
ReleaseNames == { <<"2", ".", "9", ".", "0">>, <<"2", ".", "1", "0", ".", "0">> }

\* getCurrentBranch(): the default branch or a tag that is being browsed
Branches == {master} \cup ReleaseNames

-----------------------------------------------------------------------------
(* getAheadByCount: the computation behind the cache *)

RECURSIVE ToDigits(_)
ToDigits(n) ==
    IF n < 10 THEN <<Digits[n + 1]>> ELSE Append(ToDigits(n \div 10), Digits[(n % 10) + 1])

\* "4 commits to master since this tag"
anchorText(n, branch) ==
    ToDigits(n) \o <<" ", "c", "o", "m", "m", "i", "t", "s", " ", "t", "o", " ">>
        \o branch \o <<" ", "s", "i", "n", "c", "e", " ", "t", "h", "i", "s", " ", "t", "a", "g">>

\* commits of the default branch that the tag does not reach
aheadOf(tagName) ==
    LET i == CHOOSE k \in 1..Len(nodes) : nodes[k].name = tagName
    IN  Position(defaultBranchRef) - Position(tagCommit(nodes[i]))

\* What fetchDom(`/${getRepoURL()}/releases/tag/${latestTag}`) can give.
FetchOutcomes == {"page", "pageWithoutAnchor", "networkError"}

fetchDom(tagName, outcome) ==
    IF outcome = "page"
    THEN [status |-> "ok", hasAnchor |-> TRUE,
          anchor |-> anchorText(aheadOf(tagName), getDefaultBranch)]
    ELSE IF outcome = "pageWithoutAnchor"
    THEN [status |-> "ok", hasAnchor |-> FALSE, anchor |-> <<>>]
    ELSE [status |-> "error", hasAnchor |-> FALSE, anchor |-> <<>>]

\* text.replace(/\D/g, '')
RECURSIVE stripNonDigits(_)
stripNonDigits(text) ==
    IF text = <<>> THEN <<>>
    ELSE IF IsDigit(Head(text)) THEN <<Head(text)>> \o stripNonDigits(Tail(text))
    ELSE stripNonDigits(Tail(text))

\* Mutant: select(...)?.textContent ?? '' for select(...)!.textContent!
aheadByCount_optional(fetched) ==
    IF fetched.status # "ok" THEN [ok |-> FALSE, value |-> <<>>]
    ELSE [ok |-> TRUE, value |-> stripNonDigits(fetched.anchor)]

\* the async function handed to cache.function, given what fetchDom gave:
\* a rejected fetch and a missing anchor (select() is null) both throw
aheadByCount(fetched) ==
    IF fetched.status # "ok" \/ ~fetched.hasAnchor
    THEN [ok |-> FALSE, value |-> <<>>]
    ELSE [ok |-> TRUE, value |-> stripNonDigits(fetched.anchor)]

-----------------------------------------------------------------------------
(* Options of the two cached functions *)

publishMaxAge == 1

\* Mutant: the stale-serving window of getAheadByCount, given here as well.
publishStaleWhileRevalidate_two == publishMaxAge + publishMaxAge

publishStaleWhileRevalidate == 0        \* not given: the cache's default

\* Mutant: the shape check is dropped.
shouldRevalidate_never(value) == FALSE

\* shouldRevalidate: value => typeof value === 'string'
shouldRevalidate(value) == value.type = "string"

\* cacheKey: () => __featureName__ + ':' + getRepoURL()
publishCacheKey == <<featureName, ":", getRepoURL>>

aheadByMaxAge == 1

\* Mutant: no stale-serving window, as for the publish state.
aheadByStaleWhileRevalidate_none == publishStaleWhileRevalidate

aheadByStaleWhileRevalidate == 2

\* cacheKey: () => __featureName__ + ':aheadBy:' + getRepoURL()
\* (the arguments of the call are not looked at)
aheadByCacheKey(args) == <<featureName, ":aheadBy:", getRepoURL>>

-----------------------------------------------------------------------------
(* Memoizing cache layer (webext-storage-cache, cache.function) *)

Absent == [absent |-> TRUE]

NoValue == [type |-> "none"]

Keys == {publishCacheKey} \cup { aheadByCacheKey(<<t>>) : t \in ReleaseNames }

\* "miss": the computation is invoked and awaited; "fresh": the stored value
\* is returned; "stale": the stored value is returned and the computation is
\* invoked detached.
classify(entry, revalidate) ==
    IF entry = Absent THEN "miss"
    ELSE IF revalidate THEN "miss"
    ELSE IF now - entry.storedAt <= entry.maxAge THEN "fresh"
    ELSE IF now - entry.storedAt <= entry.maxAge + entry.staleWhileRevalidate THEN "stale"
    ELSE "miss"

newEntry(value, maxAge, staleWhileRevalidate) ==
    [data |-> value, storedAt |-> now,
     maxAge |-> maxAge, staleWhileRevalidate |-> staleWhileRevalidate]

\* why a lookup that is a "miss" is one
missKind(entry, revalidate) ==
    IF entry = Absent THEN "absent"
    ELSE IF revalidate THEN "invalid"
    ELSE "expired"

publishLookup ==
    LET e == store[publishCacheKey]
    IN  classify(e, IF e = Absent THEN FALSE ELSE shouldRevalidate(e.data))

publishMissKind ==
    LET e == store[publishCacheKey]
    IN  missKind(e, IF e = Absent THEN FALSE ELSE shouldRevalidate(e.data))

aheadByLookup(args) == classify(store[aheadByCacheKey(args)], FALSE)

aheadByMissKind(args) == missKind(store[aheadByCacheKey(args)], FALSE)

\* A detached invocation of a cached function's computation.
\* phase: "running", then "set" (the value waits to be stored) or "failed" (the
\* rejection nobody handles); outcome: what the computation's fetch gave.
publishTask(r) ==
    [by |-> r, fn |-> "publish", args |-> <<>>, phase |-> "running",
     outcome |-> "none", pending |-> NoValue]

aheadByTask(r, args) ==
    [by |-> r, fn |-> "aheadBy", args |-> args, phase |-> "running",
     outcome |-> "none", pending |-> NoValue]

-----------------------------------------------------------------------------
(* init *)

undefined == <<"undefined">>

NoLink == [none |-> TRUE]

NoBranch == <<>>

idleRun ==
    [pc |-> "idle", got |-> NoValue, gotCached |-> FALSE, pending |-> NoValue,
     branch |-> NoBranch, link |-> NoLink, aheadBy |-> NoValue, returned |-> "none",
     error |-> "none",      \* what made init reject, if it did
     miss |-> "none"]       \* why the call in flight went to its computation

\* const {latestTag, isUpToDate} = <value>
latestTagOf(value) == IF value.type = "object" THEN value.value.latestTag ELSE undefined

isUpToDateOf(value) == IF value.type = "object" THEN value.value.isUpToDate ELSE FALSE

\* !latestTag
falsy(x) == x \in {false, undefined, <<>>}

\* Mutant: the breadcrumb is waited for whatever the publish state says.
afterPublishState_noCheck(rec, value, cached) ==
    [rec EXCEPT !.pc = "breadcrumb", !.got = value, !.gotCached = cached,
                !.pending = NoValue, !.miss = "none"]

\* lines 93-98: the publish state has arrived
afterPublishState(rec, value, cached) ==
    IF falsy(latestTagOf(value))
    THEN [rec EXCEPT !.pc = "done", !.got = value, !.gotCached = cached,
                     !.pending = NoValue, !.miss = "none", !.returned = "false"]
    ELSE [rec EXCEPT !.pc = "breadcrumb", !.got = value, !.gotCached = cached,
                     !.pending = NoValue, !.miss = "none"]

\* Mutant: only the branch name is compared.
onLatestRelease_branchOnly(currentBranch, tag, isUpToDate) == currentBranch = tag

\* currentBranch === latestTag || isUpToDate
onLatestRelease(currentBranch, tag, isUpToDate) == currentBranch = tag \/ isUpToDate

\* lines 103-126: the breadcrumb is there
afterBreadcrumb(rec, currentBranch, isRepoRoot) ==
    LET tag  == latestTagOf(rec.got)
        href == IF isRepoRoot THEN <<"tree", tag>> ELSE <<"replaceBranch", currentBranch, tag>>
        link == [href |-> href, name |-> currentBranch # tag,
                 label |-> "", disabled |-> FALSE, sup |-> <<>>]
    IN  IF onLatestRelease(currentBranch, tag, isUpToDateOf(rec.got))
        THEN [rec EXCEPT !.pc = "done", !.branch = currentBranch, !.returned = "undefined",
                         !.link = [link EXCEPT !.label = "You're on the latest release",
                                               !.disabled = TRUE]]
        ELSE [rec EXCEPT !.pc = "defaultBranch", !.branch = currentBranch, !.link = link]

\* lines 131-132: the ahead-by count has arrived
afterAheadBy(rec, value) ==
    [rec EXCEPT !.pc = "done", !.aheadBy = value, !.pending = NoValue,
                !.miss = "none", !.returned = "undefined",
                !.link = [@ EXCEPT !.label = "is commits ahead of the latest release",
                                   !.sup = value.value]]

-----------------------------------------------------------------------------
(* The runs of init, the detached revalidations and the world around them *)

\* Two page loads run init side by side on the one cache store.
Runs == {"load1", "load2"}

lightweight(name, oid) == [name |-> name, tag |-> [oid |-> oid]]

Init ==
    /\ now = 0
    /\ defaultBranchRef = History[1]
    /\ defaultBranchName = master
    /\ nodes \in { <<>>, <<lightweight(<<"2", ".", "9", ".", "0">>, History[1])>> }
    /\ resolved = Unresolved
       \* the store is empty, or holds what an older release of the feature
       \* wrote under the same key: the latest tag's name, a plain string
    /\ \E old \in BOOLEAN :
          /\ old => nodes # <<>>
          /\ store = [k \in Keys |->
                        IF old /\ k = publishCacheKey
                        THEN newEntry([type |-> "string", value |-> nodes[1].name],
                                      publishMaxAge, publishStaleWhileRevalidate)
                        ELSE Absent]
    /\ run = [r \in Runs |-> idleRun]
    /\ bg = {}

\* Mutant: the ahead-by count of the browsed branch is fetched before the
\* publish state is asked for.
Start_aheadFirst(r) ==
    /\ run[r].pc = "idle"
    /\ nodes # <<>>
    /\ run' = [run EXCEPT ![r].pc = "fetch", ![r].branch = master]
    /\ UNCHANGED <<repoVars, resolved, now, store, bg>>

\* Mutant: a call that misses invokes the computation a second time, detached.
Start_twice(r) ==
    /\ run[r].pc = "idle"
    /\ LET found == publishLookup
       IN  /\ run' = IF found = "miss"
                     THEN [run EXCEPT ![r].pc = "query", ![r].miss = publishMissKind]
                     ELSE [run EXCEPT ![r] = afterPublishState(@, store[publishCacheKey].data, TRUE)]
           /\ bg' = IF found \in {"stale", "miss"} THEN bg \cup {publishTask(r)} ELSE bg
    /\ UNCHANGED <<repoVars, resolved, now, store>>

\* line 93: init calls getRepoPublishState()
Start(r) ==
    /\ run[r].pc = "idle"
    /\ LET found == publishLookup
       IN  /\ run' = IF found = "miss"
                     THEN [run EXCEPT ![r].pc = "query", ![r].miss = publishMissKind]
                     ELSE [run EXCEPT ![r] = afterPublishState(@, store[publishCacheKey].data, TRUE)]
           /\ bg' = IF found = "stale" THEN bg \cup {publishTask(r)} ELSE bg
    /\ UNCHANGED <<repoVars, resolved, now, store>>

\* lines 26-75: the metadata query answers
ApiReturn(r) ==
    /\ run[r].pc = "query"
    /\ run' = [run EXCEPT ![r].pc = "queryDone",
                          ![r].pending = [type |-> "object",
                                          value |-> publishState(nodes, defaultBranchRef)]]
    /\ UNCHANGED <<repoVars, resolved, now, store, bg>>

\* Mutant: the rejection is caught and the no-tags state is returned for it.
ApiFail_swallow(r) ==
    /\ run[r].pc = "query"
    /\ run' = [run EXCEPT ![r].pc = "queryDone", ![r].error = "networkError",
                          ![r].pending = [type |-> "object",
                                          value |-> [latestTag |-> false, isUpToDate |-> FALSE]]]
    /\ UNCHANGED <<repoVars, resolved, now, store, bg>>

\* line 26: the metadata query rejects, and so do getRepoPublishState() and init
ApiFail(r) ==
    /\ run[r].pc = "query"
    /\ run' = [run EXCEPT ![r].pc = "failed", ![r].error = "networkError"]
    /\ UNCHANGED <<repoVars, resolved, now, store, bg>>

\* the cache stores the computed publish state and hands it to init
PublishSet(r) ==
    /\ run[r].pc = "queryDone"
    /\ store' = [store EXCEPT ![publishCacheKey] =
                    newEntry(run[r].pending, publishMaxAge, publishStaleWhileRevalidate)]
    /\ run' = [run EXCEPT ![r] = afterPublishState(@, run[r].pending,
                                    store'[publishCacheKey].data = run[r].pending)]
    /\ UNCHANGED <<repoVars, resolved, now, bg>>

\* line 98: elementReady('.breadcrumb') settles
ElementReady(r) ==
    /\ run[r].pc = "breadcrumb"
    /\ \/ run' = [run EXCEPT ![r].pc = "done", ![r].returned = "undefined"]
       \/ \E currentBranch \in Branches, isRepoRoot \in BOOLEAN :
             run' = [run EXCEPT ![r] = afterBreadcrumb(@, currentBranch, isRepoRoot)]
    /\ UNCHANGED <<repoVars, resolved, now, store, bg>>

\* lines 128-135: getDefaultBranch() settles; on the default branch init calls
\* getAheadByCount(latestTag)
DefaultBranch(r) ==
    /\ run[r].pc = "defaultBranch"
    /\ IF run[r].branch = getDefaultBranch
       THEN LET args  == <<latestTagOf(run[r].got)>>
                found == aheadByLookup(args)
            IN  /\ run' = IF found = "miss"
                          THEN [run EXCEPT ![r].pc = "fetch",
                                           ![r].miss = aheadByMissKind(args)]
                          ELSE [run EXCEPT ![r] = afterAheadBy(@, store[aheadByCacheKey(args)].data)]
                /\ bg' = IF found = "stale" THEN bg \cup {aheadByTask(r, args)} ELSE bg
       ELSE /\ run' = [run EXCEPT ![r].pc = "done", ![r].returned = "undefined",
                                  ![r].link = [@ EXCEPT !.label = "Visit the latest release"]]
            /\ bg' = bg
    /\ UNCHANGED <<repoVars, resolved, now, store>>

\* Mutant: the computation reads the tag back from the cached publish state.
FetchReturn_tagFromStore(r) ==
    /\ run[r].pc = "fetch"
    /\ \E outcome \in FetchOutcomes :
          LET e      == store[publishCacheKey]
              tag    == IF e = Absent THEN undefined ELSE latestTagOf(e.data)
              result == IF falsy(tag) THEN [ok |-> FALSE]
                        ELSE aheadByCount(fetchDom(tag, outcome))
          IN  run' = IF result.ok
                     THEN [run EXCEPT ![r].pc = "fetchDone",
                                      ![r].pending = [type |-> "string", value |-> result.value,
                                                      of |-> <<tag>>]]
                     ELSE [run EXCEPT ![r].pc = "failed",
                                      ![r].error = IF falsy(tag) THEN "noPublishState"
                                                   ELSE outcome]
    /\ UNCHANGED <<repoVars, resolved, now, store, bg>>

\* lines 83-85: the release page arrives (or does not)
FetchReturn(r) ==
    /\ run[r].pc = "fetch"
    /\ \E outcome \in FetchOutcomes :
          LET tag    == latestTagOf(run[r].got)
              result == aheadByCount(fetchDom(tag, outcome))
          IN  run' = IF result.ok
                     THEN [run EXCEPT ![r].pc = "fetchDone",
                                      ![r].pending = [type |-> "string", value |-> result.value,
                                                      of |-> <<tag>>]]
                     ELSE [run EXCEPT ![r].pc = "failed", ![r].error = outcome]
    /\ UNCHANGED <<repoVars, resolved, now, store, bg>>

\* the cache stores the computed count and hands it to init
AheadBySet(r) ==
    /\ run[r].pc = "fetchDone"
    /\ store' = [store EXCEPT ![aheadByCacheKey(run[r].pending.of)] =
                    newEntry(run[r].pending, aheadByMaxAge, aheadByStaleWhileRevalidate)]
    /\ run' = [run EXCEPT ![r] = afterAheadBy(@, run[r].pending)]
    /\ UNCHANGED <<repoVars, resolved, now, bg>>

\* a detached computation settles: its value is kept for the store, its
\* failure is dropped
BgReturn(t) ==
    /\ t \in bg
    /\ t.phase = "running"
    /\ IF t.fn = "aheadBy"
       THEN \E outcome \in FetchOutcomes :
               LET result == aheadByCount(fetchDom(t.args[1], outcome))
               IN  bg' = (bg \ {t}) \cup
                           { IF result.ok
                             THEN [t EXCEPT !.phase = "set", !.outcome = outcome,
                                            !.pending = [type |-> "string",
                                                         value |-> result.value,
                                                         of |-> t.args]]
                             ELSE [t EXCEPT !.phase = "failed", !.outcome = outcome] }
       ELSE \E outcome \in {"answer", "networkError"} :
               bg' = (bg \ {t}) \cup
                       { IF outcome = "answer"
                         THEN [t EXCEPT !.phase = "set", !.outcome = outcome,
                                        !.pending = [type |-> "object",
                                                     value |-> publishState(nodes, defaultBranchRef)]]
                         ELSE [t EXCEPT !.phase = "failed", !.outcome = outcome] }
    /\ UNCHANGED <<repoVars, resolved, now, store, run>>

\* a detached computation's value replaces the entry
BgSet(t) ==
    /\ t \in bg
    /\ t.phase = "set"
    /\ store' = IF t.fn = "aheadBy"
                THEN [store EXCEPT ![aheadByCacheKey(t.args)] =
                        newEntry(t.pending, aheadByMaxAge, aheadByStaleWhileRevalidate)]
                ELSE [store EXCEPT ![publishCacheKey] =
                        newEntry(t.pending, publishMaxAge, publishStaleWhileRevalidate)]
    /\ bg' = bg \ {t}
    /\ UNCHANGED <<repoVars, resolved, now, run>>

\* a day passes
Tick ==
    /\ now < MaxTime
    /\ now' = now + 1
    /\ UNCHANGED <<repoVars, resolved, store, run, bg>>

\* a commit is pushed to the default branch
PushCommit ==
    /\ Position(defaultBranchRef) < Len(History)
    /\ defaultBranchRef' = History[Position(defaultBranchRef) + 1]
    /\ UNCHANGED <<nodes, defaultBranchName, resolved, now, store, run, bg>>

\* the head of the default branch is tagged, once at most; the query lists the
\* newest first
PublishTag(name) ==
    /\ \A i \in 1..Len(nodes) : nodes[i].name # name /\ tagCommit(nodes[i]) # defaultBranchRef
    /\ nodes' = <<lightweight(name, defaultBranchRef)>> \o nodes
    /\ UNCHANGED <<defaultBranchRef, defaultBranchName, resolved, now, store, run, bg>>

Next ==
    \/ \E r \in Runs :
          \/ Start(r)
          \/ ApiReturn(r)
          \/ ApiFail(r)
          \/ PublishSet(r)
          \/ ElementReady(r)
          \/ DefaultBranch(r)
          \/ FetchReturn(r)
          \/ AheadBySet(r)
    \/ \E t \in bg : BgReturn(t)
    \/ \E t \in bg : BgSet(t)
    \/ Tick
    \/ PushCommit
    \/ \E name \in ReleaseNames : PublishTag(name)

Spec == Init /\ [][Next]_vars

\* the store loses an entry (eviction, a cleared profile, ...)
Drop(k) ==
    /\ store[k] # Absent
    /\ store' = [store EXCEPT ![k] = Absent]
    /\ UNCHANGED <<repoVars, resolved, now, run, bg>>

LossNext ==
    \/ Next
    \/ \E k \in Keys : Drop(k)

\* Spec with a store that may lose entries at any time
SpecLoss == Init /\ [][LossNext]_vars

-----------------------------------------------------------------------------
(* Specification of the computation alone: every repository snapshot within *)
(* the bounds is queried directly.                                          *)

Snapshots == { ns \in SeqsUpTo(RefNodes, MaxTags) : DistinctNames(ns) }

ResolveInit ==
    /\ nodes \in Snapshots
    /\ defaultBranchRef \in CommitOids
    /\ defaultBranchName = master
    /\ resolved = Unresolved
    /\ now = 0
    /\ store = [k \in Keys |-> Absent]
    /\ run = [r \in Runs |-> idleRun]
    /\ bg = {}

Resolve ==
    /\ resolved = Unresolved
    /\ resolved' = publishState(nodes, defaultBranchRef)
    /\ UNCHANGED <<repoVars, now, store, run, bg>>

ResolveNext == Resolve

SpecResolve == ResolveInit /\ [][ResolveNext]_vars

-----------------------------------------------------------------------------
(* Specification of the ahead-by computation alone: the release page of a    *)
(* repository's one tag is fetched directly, whatever the default branch is  *)
(* called.                                                                   *)

BranchNames ==
    { master,
      <<"m", "a", "i", "n">>,
      <<"v", "2">>,
      <<"3", ".", "x">> }

AheadByInit ==
    /\ \E name \in TagNames, i \in 1..Len(History), j \in 1..Len(History) :
          /\ i <= j
          /\ nodes = <<lightweight(name, History[i])>>
          /\ defaultBranchRef = History[j]
    /\ defaultBranchName \in BranchNames
    /\ resolved = Unresolved
    /\ now = 0
    /\ store = [k \in Keys |-> Absent]
    /\ run = [r \in Runs |-> idleRun]
    /\ bg = {}

Extract ==
    /\ resolved = Unresolved
    /\ \E outcome \in FetchOutcomes :
          resolved' = aheadByCount(fetchDom(nodes[1].name, outcome))
    /\ UNCHANGED <<repoVars, now, store, run, bg>>

AheadByNext == Extract

SpecAheadBy == AheadByInit /\ [][AheadByNext]_vars

-----------------------------------------------------------------------------
(* Claims about the computation (checked under SpecResolve) *)

HasResolved == resolved # Unresolved

NodeNames == { nodes[i].name : i \in 1..Len(nodes) }

AllNodesVersionLike == \A i \in 1..Len(nodes) : isVersionLike(nodes[i].name)

\* C1: when the query returns zero tag refs, the result is exactly
\* {latestTag: false, isUpToDate: false}, whatever the default branch's commit.
C1_EmptyGivesSentinel ==
    (HasResolved /\ Len(nodes) = 0)
        => resolved = [latestTag |-> false, isUpToDate |-> FALSE]

C1_Witness == HasResolved /\ Len(nodes) = 0 /\ defaultBranchRef = "c2"

\* C2: when the tag list is non-empty and every name is version-like, the
\* selected tag is one of the list and no tag of the list compares strictly
\* greater than it, wherever it stands in the chronological order.
C2_LatestIsMaximalVersion ==
    (HasResolved /\ Len(nodes) > 0 /\ AllNodesVersionLike)
        => /\ resolved.latestTag \in NodeNames
           /\ \A i \in 1..Len(nodes) :
                  compareVersions(nodes[i].name, resolved.latestTag) <= 0

\* three versions, the highest in the middle of the chronological order
C2_Witness ==
    /\ HasResolved /\ Len(nodes) = 3 /\ AllNodesVersionLike
    /\ resolved.latestTag = nodes[2].name
    /\ compareVersions(nodes[1].name, nodes[2].name) < 0
    /\ compareVersions(nodes[3].name, nodes[2].name) < 0

\* C3: when the tag list is non-empty and some name is not version-like, the
\* selected tag is the first of the list (the most recent by commit date).
C3_FallsBackToMostRecent ==
    (HasResolved /\ Len(nodes) > 0 /\ ~AllNodesVersionLike)
        => resolved.latestTag = nodes[1].name

\* the first tag is a version and an older tag is a higher version, yet a third
\* name is no version
C3_Witness ==
    /\ HasResolved /\ Len(nodes) = 3 /\ ~AllNodesVersionLike
    /\ isVersionLike(nodes[1].name)
    /\ \E i \in 2..3 : /\ isVersionLike(nodes[i].name)
                       /\ compareVersions(nodes[i].name, nodes[1].name) > 0
    /\ resolved.latestTag = nodes[1].name

\* C4: for a non-empty tag list, isUpToDate is true exactly when the commit the
\* selected tag resolves to (the commit behind an annotated tag object, else the
\* target's own id) is the default branch's commit.
C4_UpToDateIffSameCommit ==
    (HasResolved /\ Len(nodes) > 0)
        => \E i \in 1..Len(nodes) :
              /\ nodes[i].name = resolved.latestTag
              /\ resolved.isUpToDate
                    <=> (IF "commit" \in DOMAIN nodes[i].tag
                         THEN nodes[i].tag.commit.oid = defaultBranchRef
                         ELSE nodes[i].tag.oid = defaultBranchRef)

\* the selected tag is annotated and the commit behind it is the default branch's
C4_Witness ==
    /\ HasResolved /\ Len(nodes) > 1 /\ resolved.isUpToDate
    /\ \E i \in 1..Len(nodes) :
          /\ nodes[i].name = resolved.latestTag
          /\ "commit" \in DOMAIN nodes[i].tag

\* positions of the tags no other tag compares higher than
MaximalPositions ==
    { i \in 1..Len(nodes) :
        \A j \in 1..Len(nodes) : compareVersions(nodes[j].name, nodes[i].name) <= 0 }

\* C14: when every tag name is version-like and several tags compare equal
\* and maximal, the latest tag is the one of them that stands latest in the
\* sequence the query returned.
C14_TieGoesToLatestPosition ==
    (HasResolved /\ Len(nodes) > 0 /\ AllNodesVersionLike)
        => \E i \in MaximalPositions :
              /\ \A j \in MaximalPositions : j <= i
              /\ resolved.latestTag = nodes[i].name

\* two tags tie for the highest version, a lower one stands behind them, and
\* the second of the two is selected
C14_Witness ==
    /\ HasResolved /\ Len(nodes) = 3 /\ AllNodesVersionLike
    /\ MaximalPositions = {1, 2}
    /\ resolved.latestTag = nodes[2].name

\* version a is numerically lower than version b: at the first dotted
\* component where they differ, a's number is the smaller
NumericallyLower(a, b) ==
    LET p == Segments(a)
        q == Segments(b)
        n == IF Len(p) > Len(q) THEN Len(p) ELSE Len(q)
    IN  \E k \in 1..n :
            /\ SegmentAt(p, k) < SegmentAt(q, k)
            /\ \A m \in 1..(k - 1) : SegmentAt(p, m) = SegmentAt(q, m)

\* C18: in the selection among version-like tags the comparator orders names
\* by the numbers of their dotted components, not by their characters: a tag
\* numerically lower than another compares below it and is not selected; two
\* names that differ only in the v/r prefix compare equal, and which of them
\* is selected is decided by position alone.
C18_ComparatorIsNumeric ==
    (HasResolved /\ Len(nodes) > 0 /\ AllNodesVersionLike)
        => \A i, j \in 1..Len(nodes) :
              /\ NumericallyLower(nodes[i].name, nodes[j].name)
                    => /\ compareVersions(nodes[i].name, nodes[j].name) < 0
                       /\ compareVersions(nodes[j].name, nodes[i].name) > 0
                       /\ resolved.latestTag # nodes[i].name
              /\ StripPrefix(nodes[i].name) = StripPrefix(nodes[j].name)
                    => /\ compareVersions(nodes[i].name, nodes[j].name) = 0
                       /\ (resolved.latestTag = nodes[i].name => j <= i)

\* 2.9.0 is the newest tag and sorts first as a string, 2.10.0 and r2.10.0
\* follow: the two 2.10.0 tie above 2.9.0 and the later one is selected
C18_Witness ==
    /\ HasResolved /\ Len(nodes) = 3
    /\ nodes[1].name = <<"2", ".", "9", ".", "0">>
    /\ nodes[2].name = <<"2", ".", "1", "0", ".", "0">>
    /\ nodes[3].name = <<"r", "2", ".", "1", "0", ".", "0">>
    /\ compareVersions(nodes[1].name, nodes[2].name) < 0
    /\ compareVersions(nodes[2].name, nodes[3].name) = 0
    /\ resolved.latestTag = nodes[3].name

-----------------------------------------------------------------------------
(* Claims about the cache and init (checked under Spec) *)

\* the key getAheadByCount(latestTag) of run r reads and writes
aheadByKeyOf(r) == aheadByCacheKey(<<latestTagOf(run[r].got)>>)

\* this step is run r's call of getAheadByCount
CallsAheadBy(r) ==
    /\ run[r].pc = "defaultBranch"
    /\ run[r].branch = getDefaultBranch
    /\ run'[r].pc # "defaultBranch"

\* run r has begun the ahead-by resolution
InAheadBy(r) ==
    \/ run[r].pc \in {"fetch", "fetchDone"}
    \/ run[r].aheadBy # NoValue
    \/ \E t \in bg : t.by = r /\ t.fn = "aheadBy"

\* C5: with maxAge = 1 and staleWhileRevalidate = 2, getAheadByCount reading an
\* entry of age <= 1 returns the stored value and invokes nothing; of age in
\* (1, 3] returns the stored value in the same step and spawns exactly one
\* detached invocation; of age > 3 invokes the computation and waits, and the
\* new result is in the entry when it is returned.
C5_AheadByCachePolicy ==
    [][\A r \in Runs :
          LET e   == store[aheadByKeyOf(r)]
              age == now - e.storedAt
          IN  /\ (CallsAheadBy(r) /\ e # Absent /\ age <= 1)
                    => /\ run'[r].pc = "done" /\ run'[r].aheadBy = e.data
                       /\ bg' = bg /\ store' = store
              /\ (CallsAheadBy(r) /\ e # Absent /\ age > 1 /\ age <= 3)
                    => /\ run'[r].pc = "done" /\ run'[r].aheadBy = e.data
                       /\ store' = store
                       /\ \E t \in bg' :
                             /\ t \notin bg /\ bg' = bg \cup {t}
                             /\ t.by = r /\ t.fn = "aheadBy" /\ t.phase = "running"
              /\ (CallsAheadBy(r) /\ e # Absent /\ age > 3)
                    => /\ run'[r].pc = "fetch" /\ run'[r].aheadBy = NoValue
                       /\ bg' = bg /\ store' = store
              /\ (run[r].pc = "fetchDone" /\ run'[r].pc = "done")
                    => /\ run'[r].aheadBy = run[r].pending
                       /\ store'[aheadByKeyOf(r)].data = run'[r].aheadBy
                       /\ store'[aheadByKeyOf(r)].storedAt = now
      ]_vars

\* a run was served a stale count and its detached invocation is under way
C5_Witness ==
    \E t \in bg :
        /\ t.fn = "aheadBy" /\ t.phase = "running"
        /\ run[t.by].pc = "done"
        /\ store[aheadByKeyOf(t.by)] # Absent
        /\ run[t.by].aheadBy = store[aheadByKeyOf(t.by)].data
        /\ now - store[aheadByKeyOf(t.by)].storedAt \in 2..3

\* C6: a stored publish state that is an old-format plain string is never
\* handed to a caller, however young: the call invokes the computation and
\* waits, and the caller receives the computed result.
C6_StringNeverReturned ==
    [][\A r \in Runs :
          /\ (/\ run[r].pc = "idle" /\ run'[r].pc # "idle"
              /\ store[publishCacheKey] # Absent
              /\ store[publishCacheKey].data.type = "string")
                => run'[r].pc = "query" /\ run'[r].got = NoValue
          /\ run'[r].got.type # "string"
          /\ (run[r].pc = "queryDone" /\ run'[r].pc # "queryDone")
                => run'[r].got = run[r].pending /\ run'[r].got.type = "object"
      ]_vars

\* the string is still young and a run already holds the computed result
C6_Witness ==
    \E r \in Runs :
        /\ run[r].pc = "queryDone"
        /\ store[publishCacheKey] # Absent
        /\ store[publishCacheKey].data.type = "string"
        /\ now - store[publishCacheKey].storedAt <= 1

\* C7: every count getAheadByCount(t) hands to init was computed from the
\* release page of that same tag t.
C7_CountIsOfAskedTag ==
    \A r \in Runs :
        run[r].aheadBy # NoValue => run[r].aheadBy.of = <<latestTagOf(run[r].got)>>

\* C8: in a run of init the ahead-by resolution is begun only when the publish
\* state has arrived and is in the cache store.
C8_PublishStateBeforeAheadBy ==
    \A r \in Runs :
        InAheadBy(r) => /\ run[r].got # NoValue
                        /\ run[r].gotCached
                        /\ run[r].pc \notin {"idle", "query", "queryDone"}

\* the release page is being fetched by a run whose publish state was computed
\* and stored in this very run
C8_Witness ==
    \E r \in Runs :
        /\ run[r].pc = "fetch"
        /\ store[publishCacheKey] # Absent
        /\ store[publishCacheKey].data = run[r].got

\* C9: a run of init begins the ahead-by resolution only with a publish state
\* whose isUpToDate is false and whose latestTag is a tag, and only when the
\* browsed branch is not that tag.
C9_AheadByOnlyWhenBehind ==
    \A r \in Runs :
        InAheadBy(r) => /\ isUpToDateOf(run[r].got) = FALSE
                        /\ ~falsy(latestTagOf(run[r].got))
                        /\ run[r].branch # latestTagOf(run[r].got)

\* a run on the default branch found the latest tag up to date and ended
\* without an ahead-by resolution
C9_Witness ==
    \E r \in Runs :
        /\ run[r].pc = "done"
        /\ run[r].branch = getDefaultBranch
        /\ isUpToDateOf(run[r].got)
        /\ run[r].link # NoLink
        /\ ~InAheadBy(r)

\* C10: the caller that spawns a detached revalidation has the stale value and
\* no error; when the detached invocation fails, neither the store nor any
\* caller changes; only an invocation whose fetch gave the page with the
\* anchor reaches the store, and then the entry holds its value.
C10_BackgroundFailureIsDropped ==
    [][/\ \A t \in bg' \ bg :
             t.phase = "running"
                => /\ run'[t.by].pc = "done"
                   /\ run'[t.by].aheadBy = store[aheadByCacheKey(t.args)].data
                   /\ store' = store
       /\ \A t \in bg' \ bg :
             t.phase = "failed" => store' = store /\ run' = run
       /\ \A t \in bg' :
             (t.fn = "aheadBy" /\ t.phase = "set") => t.outcome = "page"
       /\ \A t \in bg \ bg' :
             t.phase = "set"
                => /\ store'[aheadByCacheKey(t.args)].data = t.pending
                   /\ run' = run
      ]_vars

\* a detached invocation has failed; its caller is done with the stale value
\* and the entry still holds that value
C10_Witness ==
    \E t \in bg :
        /\ t.phase = "failed"
        /\ run[t.by].pc = "done"
        /\ store[aheadByCacheKey(t.args)] # Absent
        /\ run[t.by].aheadBy = store[aheadByCacheKey(t.args)].data

\* two values are the same JavaScript value
SameValue(v, w) == v.type = w.type /\ v = w

SameEntry(e, f) ==
    IF e = Absent \/ f = Absent THEN e = Absent /\ f = Absent
    ELSE e.storedAt = f.storedAt /\ SameValue(e.data, f.data)

\* this step writes nothing to the store
StoreUntouched == \A k \in Keys : SameEntry(store[k], store'[k])

\* this step writes value v, and nothing else, to the store
StoreWrites(v) ==
    \E k \in Keys : /\ store'[k] # Absent
                    /\ SameValue(store'[k].data, v)
                    /\ \A j \in Keys \ {k} : SameEntry(store[j], store'[j])

\* C11: when the metadata query or the release page fetch of an awaited
\* invocation fails, the run of init that called rejects, nothing is written to
\* the store, no further invocation is started and the run never tries again;
\* the store changes only by a value that a successful computation produced.
C11_FailurePropagatesNoWrite ==
    [][/\ \A r \in Runs :
             /\ (run[r].pc \in {"query", "fetch"} /\ run'[r].error # "none")
                   => /\ run'[r].pc = "failed"
                      /\ StoreUntouched /\ bg' = bg
             /\ run'[r].error # "none" => run'[r].pc = "failed"
             /\ run[r].pc = "failed" => run'[r] = run[r]
       /\ ~StoreUntouched
             => \/ \E r \in Runs :
                      /\ run[r].pc \in {"queryDone", "fetchDone"}
                      /\ run[r].error = "none"
                      /\ StoreWrites(run[r].pending)
                \/ \E t \in bg : t.phase = "set" /\ StoreWrites(t.pending)
      ]_vars

\* the metadata query of a cold call has failed: the run has rejected and there
\* is still no entry
C11_Witness ==
    \E r \in Runs :
        /\ run[r].pc = "failed" /\ run[r].error = "networkError"
        /\ run[r].got = NoValue
        /\ store[publishCacheKey] = Absent

\* C15: a call of getRepoPublishState() that misses (the entry is absent,
\* expired or invalid) invokes the computation once, awaited, and nothing
\* detached; that is the only way an awaited invocation begins, and it ends in
\* a result stored and handed to the caller or in the call's failure.  Calls
\* running side by side on a cold key each invoke it; once both loads have
\* their publish state the entry holds the value one of them received.
C15_OneInvocationPerCall ==
    [][/\ \A r \in Runs :
             /\ (run[r].pc = "idle" /\ run'[r].pc # "idle" /\ publishLookup = "miss")
                   => /\ run'[r].pc = "query"
                      /\ run'[r].miss \in {"absent", "expired", "invalid"}
                      /\ bg' = bg
             /\ (run[r].pc # "query" /\ run'[r].pc = "query")
                   => run[r].pc = "idle" /\ publishLookup = "miss"
             /\ (run[r].pc = "query" /\ run'[r].pc # "query")
                   => run'[r].pc \in {"queryDone", "failed"}
             /\ (run[r].pc = "queryDone" /\ run'[r].pc # "queryDone")
                   => /\ run'[r].pc \in {"breadcrumb", "done"}
                      /\ run'[r].got.type = "object"
                      /\ store'[publishCacheKey] # Absent
                      /\ SameValue(store'[publishCacheKey].data, run[r].pending)
       /\ (\A r \in Runs : run'[r].got # NoValue)
             => /\ store'[publishCacheKey] # Absent
                /\ \E r \in Runs : SameValue(store'[publishCacheKey].data, run'[r].got)
      ]_vars

\* Within the first day no entry expires, yet the two loads hold different
\* publish states: both called on the cold key, both invoked the computation
\* (the repository changed between the two answers), both were served, and the
\* entry holds what one of them computed.
C15_Witness ==
    /\ now = 0
    /\ \A r \in Runs : run[r].got.type = "object"
    /\ run["load1"].got # run["load2"].got
    /\ store[publishCacheKey] # Absent
    /\ \E r \in Runs : SameValue(store[publishCacheKey].data, run[r].got)

\* this step is run r's call of getRepoPublishState
CallsPublishState(r) == run[r].pc = "idle" /\ run'[r].pc # "idle"

\* C16: getRepoPublishState() hands over a stored value only when its age is
\* at most 1; a call that reads an older entry invokes the computation, waits
\* and hands over the new result, stored at that moment, and nothing runs
\* detached.  getAheadByCount() hands over stored values of age up to 3, and
\* none older.
C16_NoStaleWindowForPublishState ==
    [][\A r \in Runs :
          LET e == store[publishCacheKey]
              a == store[aheadByKeyOf(r)]
          IN  /\ (CallsPublishState(r) /\ e # Absent /\ now - e.storedAt > 1)
                    => /\ run'[r].pc = "query" /\ run'[r].got = NoValue
                       /\ bg' = bg
              /\ (CallsPublishState(r) /\ run'[r].pc # "query")
                    => /\ e # Absent /\ now - e.storedAt <= 1
                       /\ SameValue(run'[r].got, e.data)
              /\ \A t \in bg' : t.fn # "publish"
              /\ (run[r].pc = "queryDone" /\ run'[r].pc # "queryDone")
                    => /\ SameValue(run'[r].got, run[r].pending)
                       /\ SameValue(store'[publishCacheKey].data, run[r].pending)
                       /\ store'[publishCacheKey].storedAt = now
              /\ (CallsAheadBy(r) /\ run'[r].pc = "done")
                    => /\ a # Absent /\ now - a.storedAt <= 3
                       /\ run'[r].aheadBy = a.data
      ]_vars

\* A load called getRepoPublishState() on an entry two days old, which holds
\* the publish state the other load was served, and waits for the
\* computation; the ahead-by entry of the same age is still servable.
C16_Witness ==
    \E r1, r2 \in Runs :
        LET e == store[publishCacheKey]
            a == store[aheadByKeyOf(r1)]
        IN  /\ run[r2].pc = "query" /\ run[r2].miss = "expired"
            /\ e # Absent /\ now - e.storedAt = 2
            /\ run[r1].pc = "done" /\ SameValue(e.data, run[r1].got)
            /\ a # Absent /\ now - a.storedAt = 2
            /\ aheadByLookup(<<latestTagOf(run[r1].got)>>) = "stale"

\* C17: when the publish state that arrives has no latest tag, init returns
\* false then and there: it does not wait for the breadcrumb, inserts no link,
\* does not resolve the default branch and does not call getAheadByCount.
C17_NoTagsReturnsFalseAtOnce ==
    /\ \A r \in Runs :
          (run[r].got # NoValue /\ falsy(latestTagOf(run[r].got)))
              => /\ run[r].pc = "done" /\ run[r].returned = "false"
                 /\ run[r].link = NoLink
                 /\ run[r].branch = NoBranch
                 /\ ~InAheadBy(r)
    /\ \A r \in Runs :
          run[r].returned = "false" => falsy(latestTagOf(run[r].got))

\* a load of a repository without tags has returned false, the sentinel it
\* was given being the one in the store
C17_Witness ==
    \E r \in Runs :
        /\ run[r].pc = "done" /\ run[r].returned = "false"
        /\ run[r].got = [type |-> "object",
                         value |-> [latestTag |-> false, isUpToDate |-> FALSE]]
        /\ run[r].link = NoLink
        /\ store[publishCacheKey] # Absent
        /\ SameValue(store[publishCacheKey].data, run[r].got)

-----------------------------------------------------------------------------
(* Claim about the ahead-by computation (checked under SpecAheadBy) *)

\* C12: the count the computation returns for the anchor text
\* "<N> commits to <branch> since this tag" is N written in digits, whatever
\* the default branch is called.
C12_CountIsCommitsAhead ==
    ("ok" \in DOMAIN resolved /\ resolved.ok)
        => resolved.value = ToDigits(aheadOf(nodes[1].name))

-----------------------------------------------------------------------------
(* Claim about a store that loses entries (checked under SpecLoss) *)

\* what a direct invocation of the computations returns in this state
directPublishState == [type |-> "object", value |-> publishState(nodes, defaultBranchRef)]

directAheadBy(tag) ==
    [type |-> "string", value |-> aheadByCount(fetchDom(tag, "page")).value, of |-> <<tag>>]

\* C13: losing a cache entry costs time only.  A call that finds its entry
\* absent invokes the computation and waits for it; where the computation
\* answers, its value is what a direct invocation returns in that state, and
\* that value is what the call hands over; the call fails only where the
\* computation's request does.
C13_LossOnlyCostsTime ==
    [][\A r \in Runs :
          /\ (/\ run[r].pc = "idle" /\ run'[r].pc # "idle"
              /\ store[publishCacheKey] = Absent)
                => /\ run'[r].pc = "query" /\ run'[r].miss = "absent"
                   /\ run'[r].error = "none"
          /\ (run[r].pc = "query" /\ run'[r].pc # "query")
                => \/ /\ run'[r].pc = "queryDone"
                      /\ SameValue(run'[r].pending, directPublishState)
                   \/ /\ run'[r].pc = "failed"
                      /\ run'[r].error = "networkError"
          /\ (run[r].pc = "queryDone" /\ run'[r].pc # "queryDone")
                => /\ run'[r].pc \in {"breadcrumb", "done"}
                   /\ SameValue(run'[r].got, run[r].pending)
          /\ (/\ run[r].pc = "defaultBranch" /\ run'[r].pc # "defaultBranch"
              /\ run[r].branch = getDefaultBranch
              /\ store[aheadByCacheKey(<<latestTagOf(run[r].got)>>)] = Absent)
                => /\ run'[r].pc = "fetch" /\ run'[r].miss = "absent"
                   /\ run'[r].error = "none"
          /\ (run[r].pc = "fetch" /\ run'[r].pc # "fetch")
                => \/ /\ run'[r].pc = "fetchDone"
                      /\ run'[r].pending = directAheadBy(latestTagOf(run[r].got))
                   \/ /\ run'[r].pc = "failed"
                      /\ run'[r].error \in FetchOutcomes \ {"page"}
          /\ (run[r].pc = "fetchDone" /\ run'[r].pc # "fetchDone")
                => /\ run'[r].pc = "done"
                   /\ run'[r].aheadBy = run[r].pending
      ]_vars

\* One load found the string an older release had stored; the entry was then
\* lost, and the other load, finding nothing, has computed the publish state.
C13_Witness ==
    \E r1, r2 \in Runs :
        /\ run[r1].miss = "invalid"
        /\ run[r2].miss = "absent"
        /\ run[r2].pc = "queryDone"
        /\ SameValue(run[r2].pending, directPublishState)
        /\ store[publishCacheKey] = Absent

====
